---- MODULE Spec2Model ----
(***************************************************************************)
(* Model of src/01_Closure.js: the closure examples of the tutorial.       *)
(*                                                                         *)
(*   createAPICache (lines 156-170)  a memoizing wrapper around an         *)
(*                                   asynchronous fetch function           *)
(*   createCoupon   (lines 116-128)  a coupon with a private use counter   *)
(*   loginSystem    (lines 50-60)    a login attempt tracker               *)
(*   counter        (lines 32-38)    a counter with inc and dec            *)
(*                                                                         *)
(* JavaScript values are encoded as strings: "str:..." is a string value,  *)
(* "num:0" the number 0, "undefined" the undefined value, "fn:..." and     *)
(* "obj:..." are functions and objects, "err:..." are thrown errors.       *)
(***************************************************************************)
EXTENDS Integers, Sequences, FiniteSets, TLC

VARIABLES cache, task, fetchCount, callCount, produced, failedKeys,
          firstResolved, overlapped, anyFailed,
          coupon, uses, couponLog,
          attempts, loginLog,
          count, incs, decs, lastRet

cacheVars == <<cache, task, fetchCount, callCount, produced, failedKeys,
               firstResolved, overlapped, anyFailed>>
couponVars == <<coupon, uses, couponLog>>
loginVars == <<attempts, loginLog>>
counterVars == <<count, incs, decs, lastRet>>
vars == <<cache, task, fetchCount, callCount, produced, failedKeys,
          firstResolved, overlapped, anyFailed, coupon, uses, couponLog,
          attempts, loginLog, count, incs, decs, lastRet>>

(***************************************************************************)
(* Bounds of the model.                                                    *)
(***************************************************************************)
\* total number of wrapper calls explored
MaxCalls == 3
\* number of calls made on one coupon
MaxCouponCalls == 5
\* largest maxUses a coupon is created with
MaxMaxUses == 3
\* number of calls made on one login tracker
MaxLoginCalls == 5
\* total number of inc and dec calls made on the counters
MaxCounterCalls == 5

\* the two wrappers built by two createAPICache calls on the same fetch
Wrappers == {"w1", "w2"}
\* the callers (async tasks) that call the wrappers
Tasks == {"t1", "t2"}
\* a name that an object literal inherits from Object.prototype, explored as a
\* url (ProtoGet lists others)
ProtoKeys == {"constructor"}
\* the urls passed to the wrappers
Keys == {"A", "B"} \cup ProtoKeys
\* the values the underlying fetch can resolve with
Values == {"str:Data1", "str:Data2", "num:0"}
\* the failures the underlying fetch can reject with
Errors == {"err:E1", "err:E2"}
\* marks a property that the cache object does not own
Absent == "<absent>"
\* marks "no value"
None == "<none>"

(***************************************************************************)
(* JavaScript helpers.                                                     *)
(***************************************************************************)
\* the values that `if (x)` takes for false
Falsy == {"num:0", "str:", "false", "null", "undefined", "NaN"}

\* ToBoolean(v), as used by `if (cache[url])` at line 160
Truthy(v) == v \notin Falsy

\* the methods that every object literal inherits from Object.prototype
ProtoMethods == {"toString", "toLocaleString", "valueOf", "hasOwnProperty",
                 "isPrototypeOf", "propertyIsEnumerable",
                 "__defineGetter__", "__defineSetter__",
                 "__lookupGetter__", "__lookupSetter__"}

\* what Object.prototype holds under a name: the Object function under
\* "constructor", Object.prototype itself under the accessor "__proto__", the
\* method under a method's name, and nothing under any other name
ProtoGet(url) ==
  CASE url = "constructor"  -> "fn:Object"
    [] url = "__proto__"    -> "obj:Object.prototype"
    [] url \in ProtoMethods -> "fn:" \o url
    [] OTHER                -> "undefined"

\* `const cache = {}` at line 157: an object with no own property
EmptyCache == [k \in Keys |-> Absent]

\* `cache[url]` at lines 160 and 162: the own property, else the inherited one
CacheGet(c, url) == IF c[url] # Absent THEN c[url] ELSE ProtoGet(url)

\* variant: the result is returned without being stored
CacheSetDropped(c, url, result) == c

\* variant: storing a result evicts the entries of the other keys
CacheSetEvicting(c, url, result) == [k \in Keys |-> IF k = url THEN result ELSE Absent]

\* `cache[url] = result` at line 167; "__proto__" is an accessor whose setter
\* ignores a primitive value, any other name becomes an own property
CacheSet(c, url, result) ==
  IF url = "__proto__" THEN c ELSE [c EXCEPT ![url] = result]

\* variant: one store shared by every wrapper (`cache` declared outside createAPICache)
StoreShared(w) == cache["w1"]

\* the `cache` binding of the closure that createAPICache(...) call w returned
StoreOf(w) == cache[w]

RECURSIVE SumOver(_, _)
SumOver(S, f) ==
  IF S = {} THEN 0
  ELSE LET x == CHOOSE y \in S : TRUE IN f[x] + SumOver(S \ {x}, f)

\* number of wrapper calls started so far
CallsMade == SumOver(Wrappers, [w \in Wrappers |-> SumOver(Keys, callCount[w])])

\* number of times wrapper w invoked the underlying fetch
FetchesOf(w) == SumOver(Keys, fetchCount[w])

\* the keys wrapper w was called with
KeysCalled(w) == {k \in Keys : callCount[w][k] > 0}

(***************************************************************************)
(* A caller that has no wrapper call in progress.                          *)
(***************************************************************************)
IdleTask == [pc |-> "idle", w |-> "w1", url |-> "A", fetched |-> FALSE, arg |-> None,
             afterFail |-> FALSE, prior |-> None, first |-> FALSE,
             ok |-> TRUE, val |-> None, fres |-> None]

InitCache ==
  /\ cache = [w \in Wrappers |-> EmptyCache]
  /\ task = [t \in Tasks |-> IdleTask]
  /\ fetchCount = [w \in Wrappers |-> [k \in Keys |-> 0]]
  /\ callCount = [w \in Wrappers |-> [k \in Keys |-> 0]]
  /\ produced = {}
  /\ failedKeys = {}
  /\ firstResolved = [w \in Wrappers |-> [k \in Keys |-> None]]
  /\ overlapped = FALSE
  /\ anyFailed = FALSE

\* the bookkeeping every started call does
CallStarted(t, w, url) ==
  /\ callCount' = [callCount EXCEPT ![w][url] = @ + 1]
  /\ overlapped' = (overlapped \/ \E o \in Tasks \ {t} : task[o].pc # "idle")
  /\ UNCHANGED <<cache, produced, failedKeys, anyFailed>>

\* the record of a call that starts now
NewCall(t, w, url) ==
  [IdleTask EXCEPT !.w = w, !.url = url,
                   !.afterFail = (<<w, url>> \in failedKeys),
                   !.prior = firstResolved[w][url],
                   !.first = (callCount[w][url] = 0)]

\* the wrapper's promise is fulfilled with val
Fulfilled(t, c, val) ==
  /\ task' = [task EXCEPT ![t] = [c EXCEPT !.pc = "returned", !.ok = TRUE, !.val = val]]
  /\ firstResolved' = IF c.first
                      THEN [firstResolved EXCEPT ![c.w][c.url] = val]
                      ELSE firstResolved

\* variant: a hit returns the stored value but still invokes the fetch
CallHitRefetch(t, w, url) ==
  /\ Fulfilled(t, [NewCall(t, w, url) EXCEPT !.fetched = TRUE, !.arg = url],
               CacheGet(StoreOf(w), url))
  /\ fetchCount' = [fetchCount EXCEPT ![w][url] = @ + 1]

\* lines 160-163: the lookup is truthy; the body returns the stored value
CallHit(t, w, url) ==
  /\ Fulfilled(t, NewCall(t, w, url), CacheGet(StoreOf(w), url))
  /\ UNCHANGED fetchCount

\* variant: a call that misses while a fetch for the same key is in flight on
\* the same wrapper joins that fetch instead of invoking the fetch again
CallMissCoalesced(t, w, url) ==
  IF \E o \in Tasks \ {t} : task[o].pc = "fetching" /\ task[o].w = w /\ task[o].url = url
  THEN /\ task' = [task EXCEPT ![t] = [NewCall(t, w, url) EXCEPT !.pc = "fetching", !.arg = url]]
       /\ UNCHANGED <<fetchCount, firstResolved>>
  ELSE /\ task' = [task EXCEPT ![t] = [NewCall(t, w, url) EXCEPT !.pc = "fetching", !.fetched = TRUE, !.arg = url]]
       /\ fetchCount' = [fetchCount EXCEPT ![w][url] = @ + 1]
       /\ UNCHANGED firstResolved

\* lines 165-166: the body invokes fetchFunction(url) and suspends at await
CallMiss(t, w, url) ==
  /\ task' = [task EXCEPT ![t] = [NewCall(t, w, url) EXCEPT !.pc = "fetching", !.fetched = TRUE, !.arg = url]]
  /\ fetchCount' = [fetchCount EXCEPT ![w][url] = @ + 1]
  /\ UNCHANGED firstResolved

\* lines 159-166: a caller calls the wrapper; the body runs up to its first await
Call(t, w, url) ==
  /\ task[t].pc = "idle"
  /\ CallsMade < MaxCalls
  /\ IF Truthy(CacheGet(StoreOf(w), url)) THEN CallHit(t, w, url) ELSE CallMiss(t, w, url)
  /\ CallStarted(t, w, url)
  /\ UNCHANGED <<couponVars, loginVars, counterVars>>

\* lines 167-168, run when the await yields v: store the result, then return it
ResumeOk(t, v) ==
  /\ cache' = [cache EXCEPT ![task[t].w] = CacheSet(@, task[t].url, v)]
  /\ Fulfilled(t, [task[t] EXCEPT !.fres = v], v)
  /\ UNCHANGED failedKeys

\* variant: the failure is stored under the key before it is rethrown
ResumeErrCaching(t, e) ==
  /\ cache' = [cache EXCEPT ![task[t].w] = CacheSet(@, task[t].url, e)]
  /\ task' = [task EXCEPT ![t].pc = "returned", ![t].ok = FALSE, ![t].val = e, ![t].fres = e]
  /\ failedKeys' = failedKeys \cup {<<task[t].w, task[t].url>>}
  /\ UNCHANGED firstResolved

\* variant: the failure is caught and the call returns undefined
ResumeErrSwallowed(t, e) ==
  /\ UNCHANGED cache
  /\ task' = [task EXCEPT ![t].pc = "returned", ![t].ok = TRUE, ![t].val = "undefined", ![t].fres = e]
  /\ failedKeys' = failedKeys \cup {<<task[t].w, task[t].url>>}
  /\ UNCHANGED firstResolved

\* line 166, run when the await throws e: the throw leaves the body and the
\* wrapper's promise is rejected with e
ResumeErr(t, e) ==
  /\ UNCHANGED cache
  /\ task' = [task EXCEPT ![t].pc = "returned", ![t].ok = FALSE, ![t].val = e, ![t].fres = e]
  /\ failedKeys' = failedKeys \cup {<<task[t].w, task[t].url>>}
  /\ UNCHANGED firstResolved

\* lines 166-168: the promise of fetchFunction(url) is fulfilled with v and the
\* body resumes after the await.  The settlement and the resumption are one
\* step: nothing but the resumed body reads the settled value.
FetchResolve(t, v) ==
  /\ task[t].pc = "fetching"
  /\ produced' = produced \cup {<<task[t].arg, v>>}
  /\ ResumeOk(t, v)
  /\ UNCHANGED <<fetchCount, callCount, overlapped, anyFailed>>
  /\ UNCHANGED <<couponVars, loginVars, counterVars>>

\* line 166: the promise of fetchFunction(url) is rejected with e and the await
\* throws e
FetchReject(t, e) ==
  /\ task[t].pc = "fetching"
  /\ anyFailed' = TRUE
  /\ ResumeErr(t, e)
  /\ UNCHANGED <<fetchCount, callCount, produced, overlapped>>
  /\ UNCHANGED <<couponVars, loginVars, counterVars>>

\* lines 183-185: the caller's `await cachedFetch(...)` resumes with the outcome
Deliver(t) ==
  /\ task[t].pc = "returned"
  /\ task' = [task EXCEPT ![t] = IdleTask]
  /\ UNCHANGED <<cache, fetchCount, callCount, produced, failedKeys, firstResolved, overlapped, anyFailed>>
  /\ UNCHANGED <<couponVars, loginVars, counterVars>>

(***************************************************************************)
(* createCoupon, lines 116-128.                                            *)
(***************************************************************************)
Codes == {"WELCOME50", "FESTIVE20"}
Discounts == {20, 50}
Prices == {100, 200}

\* line 116-117: createCoupon(code, discount, maxUses) with uses = 0
InitCoupon ==
  /\ coupon \in [code : Codes, discount : Discounts, maxUses : 0..MaxMaxUses]
  /\ uses = 0
  /\ couponLog = <<>>

\* line 130: newUserCoupon, not called
InitCouponUnused ==
  /\ coupon = [code |-> "WELCOME50", discount |-> 50, maxUses |-> 2]
  /\ uses = 0
  /\ couponLog = <<>>

\* variant: the comparison is off by one
ExpiredLate(u, maxUses) == u > maxUses

\* line 120: the coupon is used up
Expired(u, maxUses) == u >= maxUses

\* variant: the remaining uses are computed before uses is incremented
ApplyCouponStaleRemaining(price) ==
  /\ Len(couponLog) < MaxCouponCalls
  /\ IF Expired(uses, coupon.maxUses)
     THEN /\ UNCHANGED uses
          /\ couponLog' = Append(couponLog, [kind |-> "expired", code |-> coupon.code, price |-> price])
     ELSE /\ uses' = uses + 1
          /\ couponLog' = Append(couponLog,
                 [kind |-> "applied", code |-> coupon.code, price |-> price,
                  finalPrice |-> price - coupon.discount,
                  remaining |-> coupon.maxUses - uses])
  /\ UNCHANGED coupon
  /\ UNCHANGED <<cacheVars, loginVars, counterVars>>

\* lines 119-127: the function createCoupon returns, called with price
ApplyCoupon(price) ==
  /\ Len(couponLog) < MaxCouponCalls
  /\ IF Expired(uses, coupon.maxUses)
     THEN /\ UNCHANGED uses
          /\ couponLog' = Append(couponLog, [kind |-> "expired", code |-> coupon.code, price |-> price])
     ELSE /\ uses' = uses + 1
          /\ couponLog' = Append(couponLog,
                 [kind |-> "applied", code |-> coupon.code, price |-> price,
                  finalPrice |-> price - coupon.discount,
                  remaining |-> coupon.maxUses - uses'])
  /\ UNCHANGED coupon
  /\ UNCHANGED <<cacheVars, loginVars, counterVars>>

(***************************************************************************)
(* loginSystem, lines 50-60.                                               *)
(***************************************************************************)
\* line 52
maxAttempts == 3

\* the passwords tried (lines 63-65 and the password of line 56)
Passwords == {"secret123", "test", "wrong"}

\* lines 50-51: loginSystem() with attempts = 0, not called yet
InitLogin ==
  /\ attempts = 0
  /\ loginLog = <<>>

\* line 55: the tracker is locked
Locked(a) == a >= maxAttempts

\* line 58: the template string, with attempts already incremented
WrongMessage(a) == "Wrong password! " \o ToString(maxAttempts - a) \o " tries left"

\* variant: the password is checked before the lock
LoginResultPasswordFirst(a, password) ==
  IF password = "secret123" THEN "Login successful!"
  ELSE IF Locked(a) THEN "Account locked!"
  ELSE WrongMessage(a + 1)

\* lines 54-59: the value the returned function yields for password when the
\* counter is a
LoginResult(a, password) ==
  IF Locked(a) THEN "Account locked!"
  ELSE IF password = "secret123" THEN "Login successful!"
  ELSE WrongMessage(a + 1)

\* variant: a successful login resets the counter
LoginAttemptsReset(a, password) ==
  IF Locked(a) THEN a
  ELSE IF password = "secret123" THEN 0
  ELSE a + 1

\* lines 55-57: the counter after the call
LoginAttempts(a, password) ==
  IF Locked(a) THEN a
  ELSE IF password = "secret123" THEN a
  ELSE a + 1

\* lines 54-59: the function loginSystem returns, called with password
Login(password) ==
  /\ Len(loginLog) < MaxLoginCalls
  /\ attempts' = LoginAttempts(attempts, password)
  /\ loginLog' = Append(loginLog, [password |-> password,
                                   result |-> LoginResult(attempts, password)])
  /\ UNCHANGED <<cacheVars, couponVars, counterVars>>

(***************************************************************************)
(* counter, lines 32-38.                                                   *)
(***************************************************************************)
\* the counters made by separate counter() calls
Counters == {"c1", "c2"}

\* lines 32-33: counter() with count = 0, not called yet
InitCounter ==
  /\ count = [c \in Counters |-> 0]
  /\ incs = [c \in Counters |-> 0]
  /\ decs = [c \in Counters |-> 0]
  /\ lastRet = [c \in Counters |-> 0]

\* number of inc and dec calls made so far
CounterCalls == SumOver(Counters, incs) + SumOver(Counters, decs)

\* variant: `count++` yields the value before the increment
PostIncrement(n) == [count |-> n + 1, ret |-> n]

\* line 35: `++count` yields the value after the increment
PreIncrement(n) == [count |-> n + 1, ret |-> n + 1]

\* line 36: `--count` yields the value after the decrement
PreDecrement(n) == [count |-> n - 1, ret |-> n - 1]

\* line 35: c.inc()
Inc(c) ==
  /\ CounterCalls < MaxCounterCalls
  /\ count' = [count EXCEPT ![c] = PreIncrement(count[c]).count]
  /\ lastRet' = [lastRet EXCEPT ![c] = PreIncrement(count[c]).ret]
  /\ incs' = [incs EXCEPT ![c] = @ + 1]
  /\ UNCHANGED decs
  /\ UNCHANGED <<cacheVars, couponVars, loginVars>>

\* line 36: c.dec()
Dec(c) ==
  /\ CounterCalls < MaxCounterCalls
  /\ count' = [count EXCEPT ![c] = PreDecrement(count[c]).count]
  /\ lastRet' = [lastRet EXCEPT ![c] = PreDecrement(count[c]).ret]
  /\ decs' = [decs EXCEPT ![c] = @ + 1]
  /\ UNCHANGED incs
  /\ UNCHANGED <<cacheVars, couponVars, loginVars>>

(***************************************************************************)
(* Specifications.                                                         *)
(***************************************************************************)
Init == InitCache /\ InitCouponUnused /\ InitLogin /\ InitCounter

Next ==
  \/ \E t \in Tasks, w \in Wrappers, url \in Keys : Call(t, w, url)
  \/ \E t \in Tasks, v \in Values : FetchResolve(t, v)
  \/ \E t \in Tasks, e \in Errors : FetchReject(t, e)
  \/ \E t \in Tasks : Deliver(t)

Spec == Init /\ [][Next]_vars

InitC == InitCache /\ InitCoupon /\ InitLogin /\ InitCounter

NextCoupon == \E price \in Prices : ApplyCoupon(price)

SpecCoupon == InitC /\ [][NextCoupon]_vars

NextLogin == \E password \in Passwords : Login(password)

SpecLogin == Init /\ [][NextLogin]_vars

NextCounter ==
  \/ \E c \in Counters : Inc(c)
  \/ \E c \in Counters : Dec(c)

SpecCounter == Init /\ [][NextCounter]_vars


(***************************************************************************)
(* Properties of createAPICache.                                           *)
(***************************************************************************)
\* the calls that are in progress
Active == {t \in Tasks : task[t].pc # "idle"}

\* C1: idempotent memoization. In a sequential history, once the first call
\* for a key has resolved with v, a later call for that key does not invoke the
\* underlying fetch and returns v, whatever v is (also 0, '', undefined).
C1_IdempotentMemoization ==
  \A t \in Active :
    (~overlapped /\ task[t].prior # None) =>
      /\ ~task[t].fetched
      /\ (task[t].pc = "returned" /\ task[t].ok) => task[t].val = task[t].prior

\* C2 as stated: a call for k started after a call for k on the same wrapper
\* failed always invokes the underlying fetch again, in every interleaving.
C2_RetryAfterFailureAlways ==
  \A t \in Active : task[t].afterFail => task[t].fetched

\* C2 as amended: a failure is never cached. A call for k started after a call
\* for k failed either invokes the underlying fetch again, or returns a truthy
\* value that a fetch for k produced and a successful call for k stored.
C2_NoCachingOfFailures ==
  \A t \in Active :
    (task[t].afterFail /\ ~task[t].fetched) =>
      /\ task[t].pc = "returned" /\ task[t].ok
      /\ Truthy(task[t].val)
      /\ <<task[t].url, task[t].val>> \in produced
      /\ cache[task[t].w][task[t].url] # Absent

\* a call started after a failure of its key is fetching again
C2_Witness ==
  \E t \in Tasks : task[t].pc = "fetching" /\ task[t].afterFail

\* C3: when the fetch a call awaits fails with e, the call fails with the same
\* e and the step changes no entry of any store.
C3_FailurePropagatesStoreUntouched ==
  [][\A t \in Tasks :
       (task[t].pc = "fetching" /\ task'[t].fres \in Errors) =>
         /\ task'[t].pc = "returned"
         /\ ~task'[t].ok
         /\ task'[t].val = task'[t].fres
         /\ cache' = cache]_vars

\* a wrapper call has failed with the failure of its fetch
C3_Witness ==
  \E t \in Tasks : task[t].pc = "returned" /\ ~task[t].ok /\ task[t].fres \in Errors

\* C4: key isolation. The fetch is invoked with the caller's key, and a value a
\* call for k returns was produced by a fetch invocation for k.
C4_KeyIsolation ==
  \A t \in Active :
    /\ task[t].fetched => task[t].arg = task[t].url
    /\ (task[t].pc = "returned" /\ task[t].ok) => <<task[t].url, task[t].val>> \in produced

\* C5: the store starts empty: the first call for any key on a wrapper invokes
\* the underlying fetch.
C5_FirstCallFetches ==
  \A t \in Active : task[t].first => task[t].fetched

\* the wrapper a step of task t belongs to
StepWrapper(t) == IF task[t].pc = "idle" THEN task'[t].w ELSE task[t].w

\* C6: per-instance isolation. A step of a call on one wrapper leaves the other
\* wrapper's store unchanged, and the first call for k on a wrapper invokes the
\* fetch although k has resolved in the other wrapper.
C6_PerInstanceIsolation ==
  [][\A t \in Tasks :
       task'[t] # task[t] =>
         /\ \A o \in Wrappers \ {StepWrapper(t)} : cache'[o] = cache[o]
         /\ (/\ task[t].pc = "idle"
             /\ task'[t].first
             /\ \E o \in Wrappers \ {task'[t].w} : cache[o][task'[t].url] # Absent)
            => task'[t].fetched]_vars

\* k is stored in w1 and the first call for k on w2 fetches
C6_Witness ==
  \E t \in Tasks :
    /\ task[t].pc = "fetching" /\ task[t].w = "w2" /\ task[t].first
    /\ cache["w1"][task[t].url] # Absent
    /\ cache["w2"][task[t].url] = Absent

\* C7: in a sequential history without failures, a wrapper has invoked the
\* fetch once per distinct key it was called with.
C7_FetchesEqualDistinctKeys ==
  \A w \in Wrappers :
    (~overlapped /\ ~anyFailed) => FetchesOf(w) = Cardinality(KeysCalled(w))

\* C8: when the fetch a call for k awaits resolves with r, the step that
\* returns from the call has stored r under k and returns exactly r.
C8_StoreThenReturn ==
  [][\A t \in Tasks :
       (task[t].pc = "fetching" /\ task'[t].fres \in Values) =>
         /\ task'[t].pc = "returned"
         /\ task'[t].ok
         /\ task'[t].val = task'[t].fres
         /\ <<task[t].url, task'[t].fres>> \in produced'
         /\ cache'[task[t].w][task[t].url] = task'[t].fres]_vars

\* a call that missed has returned the value that the store holds
C8_Witness ==
  \E t \in Tasks :
    /\ task[t].pc = "returned" /\ task[t].fres \in Values /\ task[t].ok
    /\ cache[task[t].w][task[t].url] = task[t].val

\* C9 as stated: after a hit on a stored entry nothing runs before the caller
\* has received the value.
C9_HitDeliveredWithoutInterleaving ==
  [][\A t \in Tasks :
       (/\ task[t].pc = "returned"
        /\ ~task[t].fetched
        /\ cache[task[t].w][task[t].url] # Absent) => task'[t].pc = "idle"]_vars

\* C9 as amended: on a hit the body of the wrapper runs to its return in the
\* step that starts the call, without invoking the fetch and without changing
\* the store, and fulfils the wrapper's promise with the stored value; the
\* caller receives the value in a later step.
C9_HitReturnsStoredValueWithoutFetch ==
  [][\A t \in Tasks :
       (/\ task[t].pc = "idle"
        /\ task'[t].pc # "idle"
        /\ Truthy(CacheGet(cache[task'[t].w], task'[t].url))) =>
         /\ task'[t].pc = "returned"
         /\ task'[t].ok
         /\ task'[t].val = CacheGet(cache[task'[t].w], task'[t].url)
         /\ ~task'[t].fetched
         /\ fetchCount' = fetchCount
         /\ cache' = cache]_vars

\* a call that hit a stored entry has returned while another call is in progress
C9_Witness ==
  \E t \in Tasks :
    /\ task[t].pc = "returned" /\ ~task[t].fetched
    /\ cache[task[t].w][task[t].url] = task[t].val
    /\ \E o \in Tasks \ {t} : task[o].pc # "idle"

(***************************************************************************)
(* Properties of createCoupon.                                             *)
(***************************************************************************)
\* C10: the i-th call on a coupon is applied exactly when i <= maxUses: at most
\* maxUses calls are applied and every call after an expired one is expired.
C10_AppliedOnFirstMaxUsesCalls ==
  \A i \in 1..Len(couponLog) :
    (couponLog[i].kind = "applied") <=> (i <= coupon.maxUses)

\* a coupon with maxUses >= 1 has been applied maxUses times and has expired twice
C10_Witness ==
  /\ coupon.maxUses >= 1
  /\ Len(couponLog) >= coupon.maxUses + 2
  /\ couponLog[Len(couponLog)].kind = "expired"

\* the number of applied calls among the first i calls on the coupon
AppliedUpTo(i) == Cardinality({j \in 1..i : couponLog[j].kind = "applied"})

\* C17: uses stays within 0..maxUses and counts the applied calls only (an
\* expired call leaves it unchanged); an applied call reports price - discount
\* and maxUses minus the applied calls so far, a value in 0..maxUses-1.
C17_CouponCounterAndReport ==
  /\ uses \in 0..coupon.maxUses
  /\ uses = AppliedUpTo(Len(couponLog))
  /\ \A i \in 1..Len(couponLog) :
       couponLog[i].kind = "applied" =>
         /\ couponLog[i].finalPrice = couponLog[i].price - coupon.discount
         /\ couponLog[i].remaining = coupon.maxUses - AppliedUpTo(i)
         /\ couponLog[i].remaining \in 0..(coupon.maxUses - 1)

\* the last use of a coupon reported 0 remaining uses and an expired call followed
C17_Witness ==
  /\ Len(couponLog) >= 2
  /\ couponLog[Len(couponLog)].kind = "expired"
  /\ couponLog[Len(couponLog) - 1].kind = "applied"
  /\ couponLog[Len(couponLog) - 1].remaining = 0
  /\ uses = coupon.maxUses

(***************************************************************************)
(* Properties of createAPICache under overlapping calls.                   *)
(***************************************************************************)
\* C13: no in-flight deduplication. A call for k that starts while a fetch for
\* k is in flight on the same wrapper and k is not stored invokes the fetch
\* again: the invocation count of k rises by one per overlapping call.
C13_NoInFlightDeduplication ==
  [][\A t \in Tasks :
       (/\ task[t].pc = "idle"
        /\ task'[t].pc # "idle"
        /\ cache[task'[t].w][task'[t].url] = Absent
        /\ \E o \in Tasks \ {t} : /\ task[o].pc = "fetching"
                                  /\ task[o].w = task'[t].w
                                  /\ task[o].url = task'[t].url) =>
         /\ task'[t].pc = "fetching"
         /\ task'[t].fetched
         /\ fetchCount'[task'[t].w][task'[t].url] = fetchCount[task'[t].w][task'[t].url] + 1]_vars

\* two calls for the same key are in flight on one wrapper and the fetch was
\* invoked once for each
C13_Witness ==
  \E t \in Tasks, o \in Tasks :
    /\ t # o
    /\ task[t].pc = "fetching" /\ task[o].pc = "fetching"
    /\ task[t].w = task[o].w /\ task[t].url = task[o].url
    /\ fetchCount[task[t].w][task[t].url] = 2

\* C14 as stated: once the store holds a value for k, no step changes or
\* removes it.
C14_EntryNeverOverwritten ==
  [][\A w \in Wrappers, k \in Keys :
       cache[w][k] # Absent => cache'[w][k] = cache[w][k]]_vars

\* C14 as amended: an entry is never removed, and the only step that writes the
\* entry of k is the successful resolution of a fetch that a call for k on that
\* wrapper awaited, which sets the entry to that fetch's result; such a call
\* overwrites an entry that another call for k stored in the meantime.
C14_EntryWrittenOnlyByResolution ==
  [][\A w \in Wrappers, k \in Keys :
       /\ cache[w][k] # Absent => cache'[w][k] # Absent
       /\ cache'[w][k] # cache[w][k] =>
            \E t \in Tasks : /\ task[t].pc = "fetching"
                             /\ task[t].w = w /\ task[t].url = k
                             /\ task'[t].pc = "returned"
                             /\ task'[t].fres \in Values
                             /\ cache'[w][k] = task'[t].fres]_vars

\* a call has stored its result and another call for the same key has
\* overwritten it with a different one
C14_Witness ==
  \E t \in Tasks :
    /\ task[t].pc = "returned" /\ task[t].fres \in Values
    /\ cache[task[t].w][task[t].url] \in Values \ {task[t].fres}

(***************************************************************************)
(* Properties of loginSystem.                                              *)
(***************************************************************************)
\* C11: on a new tracker three wrong passwords in a row yield
\* 'Wrong password! 2 tries left', 'Wrong password! 1 tries left' and
\* 'Account locked!'.
C11_ThreeWrongPasswords ==
  (/\ Len(loginLog) >= 3
   /\ \A i \in 1..3 : loginLog[i].password # "secret123") =>
    /\ loginLog[1].result = "Wrong password! 2 tries left"
    /\ loginLog[2].result = "Wrong password! 1 tries left"
    /\ loginLog[3].result = "Account locked!"

\* a call was made in this step
LoginCalled == Len(loginLog') = Len(loginLog) + 1

\* the call made in this step
LastLogin == loginLog'[Len(loginLog')]

\* C15: once three wrong passwords are counted, every call returns
\* 'Account locked!', also with the right password, and the tracker stays locked.
C15_LockoutPermanent ==
  [][(attempts >= maxAttempts /\ LoginCalled) =>
       /\ LastLogin.result = "Account locked!"
       /\ attempts' >= maxAttempts]_vars

\* a locked tracker has refused the right password
C15_Witness ==
  /\ attempts >= maxAttempts
  /\ Len(loginLog) > 0
  /\ loginLog[Len(loginLog)].password = "secret123"
  /\ loginLog[Len(loginLog)].result = "Account locked!"

\* C16: attempts stays within 0..3 and never decreases; a wrong password given
\* while attempts < 3 adds exactly 1, every other call leaves it unchanged.
C16_AttemptsCounter ==
  [][/\ attempts \in 0..3
     /\ attempts' \in 0..3
     /\ attempts' >= attempts
     /\ LoginCalled =>
          attempts' = IF LastLogin.password # "secret123" /\ attempts < 3
                      THEN attempts + 1
                      ELSE attempts]_vars

\* a login succeeded after a wrong password and the wrong attempt is still counted
C16_Witness ==
  /\ attempts >= 1
  /\ \E i \in 1..Len(loginLog), j \in 1..Len(loginLog) :
       /\ i < j
       /\ loginLog[i].password # "secret123"
       /\ loginLog[j].result = "Login successful!"

(***************************************************************************)
(* Properties of counter.                                                  *)
(***************************************************************************)
\* C12: a call of inc or dec on a counter returns the value after its update,
\* which is the number of inc calls minus the number of dec calls on that
\* counter, and leaves the other counter as it was.
C12_CounterReturnsUpdatedValue ==
  [][\A c \in Counters :
       (incs'[c] # incs[c] \/ decs'[c] # decs[c]) =>
         /\ lastRet'[c] = incs'[c] - decs'[c]
         /\ count'[c] = lastRet'[c]
         /\ \A o \in Counters \ {c} : count'[o] = count[o] /\ lastRet'[o] = lastRet[o]]_vars

\* both counters were used, one was incremented and decremented, and they differ
C12_Witness ==
  \E c \in Counters, o \in Counters :
    /\ incs[c] >= 1 /\ decs[c] >= 1
    /\ incs[o] + decs[o] >= 1
    /\ count[c] # count[o]

TypeOK ==
  /\ \A t \in Tasks : task[t].pc \in {"idle", "fetching", "returned"}
  /\ uses \in 0..MaxMaxUses

====
